---- MODULE Spec2Model ----
(***************************************************************************)
(* Subtitle search server (src/app.py): the time-aligned translation       *)
(* lookup (find_closest_sub, find_translation_in_other_lang), the          *)
(* streaming search (stream_subtitle_search) and the session loop          *)
(* (handle_client).                                                        *)
(*                                                                         *)
(* Strings are sequences of Unicode code points, so that lower(), strip(), *)
(* `in`, endswith() and replace() are computed as Python computes them.    *)
(* A subtitle time is a pysrt SubRipTime: hours, minutes, seconds,         *)
(* milliseconds.                                                           *)
(***************************************************************************)
EXTENDS Integers, Sequences, FiniteSets, TLC

\* ------------------------------------------------------------------------
\* Bounds of the model

\* directories of a tree (os.walk yields root first, then sub-directories)
MaxDirs == 2
\* queries one session reads before the peer stops sending
MaxQueries == 2
\* records of the sequence handed to find_closest_sub in SpecClosest
MaxSubs == 3

\* ------------------------------------------------------------------------
\* Program constants

\* SEARCH_LIMIT = 12
SEARCH_LIMIT == 12

\* timedelta(seconds=1), the default tolerance, in milliseconds
DefaultTolerance == 1000

\* timedelta.max, the initial min_time_diff: larger than every difference of
\* two subtitle times (here the largest integer TLC represents)
TimedeltaMax == 2147483647

\* ------------------------------------------------------------------------
\* Python string operations on sequences of code points

\* str.isspace for the characters str.strip() removes
IsSpace(c) == c \in {9, 10, 11, 12, 13, 28, 29, 30, 31, 32, 133, 160}

RECURSIVE LStrip(_)
LStrip(s) == IF s # <<>> /\ IsSpace(Head(s)) THEN LStrip(Tail(s)) ELSE s

RECURSIVE RStrip(_)
RStrip(s) ==
    IF s # <<>> /\ IsSpace(s[Len(s)]) THEN RStrip(SubSeq(s, 1, Len(s) - 1)) ELSE s

\* str.strip()
Strip(s) == RStrip(LStrip(s))

\* str.lower() of one character: Latin A-Z and Cyrillic capitals (U+0410-U+042F
\* map to U+0430-U+044F, U+0400-U+040F to U+0450-U+045F); others unchanged
LowerChar(c) ==
    IF c \in 65..90 THEN c + 32
    ELSE IF c \in 1040..1071 THEN c + 32
    ELSE IF c \in 1024..1039 THEN c + 80
    ELSE c

\* str.lower()
Lower(s) == [i \in 1..Len(s) |-> LowerChar(s[i])]

\* needle in hay
Contains(needle, hay) ==
    \E i \in 0..(Len(hay) - Len(needle)) : SubSeq(hay, i + 1, i + Len(needle)) = needle

\* str.endswith
EndsWith(s, suffix) ==
    /\ Len(suffix) <= Len(s)
    /\ SubSeq(s, Len(s) - Len(suffix) + 1, Len(s)) = suffix

StartsWith(s, prefix) ==
    /\ Len(prefix) <= Len(s)
    /\ SubSeq(s, 1, Len(prefix)) = prefix

\* str.replace(old, new) for a non-empty old: every non-overlapping occurrence,
\* leftmost first
RECURSIVE Replace(_, _, _)
Replace(s, old, new) ==
    IF s = <<>> THEN <<>>
    ELSE IF StartsWith(s, old)
         THEN new \o Replace(SubSeq(s, Len(old) + 1, Len(s)), old, new)
         ELSE <<Head(s)>> \o Replace(Tail(s), old, new)

\* re.sub(r"[ \n]+", " ", s): each maximal run of spaces and newlines becomes
\* one space
RECURSIVE CollapseSpaces(_)
CollapseSpaces(s) ==
    IF s = <<>> THEN <<>>
    ELSE IF Head(s) \in {32, 10}
         THEN IF Len(s) > 1 /\ s[2] \in {32, 10}
              THEN CollapseSpaces(Tail(s))
              ELSE <<32>> \o CollapseSpaces(Tail(s))
         ELSE <<Head(s)>> \o CollapseSpaces(Tail(s))

\* "<i>" and "</i>"
ItalicOpen == <<60, 105, 62>>
ItalicClose == <<60, 47, 105, 62>>

\* the text of the original block: re.sub over the stripped text, then the two
\* replace calls
NormalizeOriginal(text) ==
    Replace(Replace(CollapseSpaces(Strip(text)), ItalicOpen, <<>>), ItalicClose, <<>>)

\* the text of the translation block: re.sub, then strip, then the replaces
NormalizeTranslation(text) ==
    Replace(Replace(Strip(CollapseSpaces(text)), ItalicOpen, <<>>), ItalicClose, <<>>)

\* the language decided by the first character of the text
is_russian_first_char(text) == text # <<>> /\ text[1] > 127

\* is_russian: any character outside \x00-\x7F
is_russian(text) == \E i \in 1..Len(text) : text[i] > 127

\* ------------------------------------------------------------------------
\* Time alignment

\* to_timedelta, in milliseconds
to_timedelta(t) ==
    ((t.hours * 60 + t.minutes) * 60 + t.seconds) * 1000 + t.milliseconds

Abs(x) == IF x < 0 THEN 0 - x ELSE x

\* the test of the loop body: the record replaces the best so far
CloserLenient(time_diff, tolerance, min_time_diff) ==
    time_diff <= tolerance /\ time_diff <= min_time_diff

CloserStrictTolerance(time_diff, tolerance, min_time_diff) ==
    time_diff < tolerance /\ time_diff < min_time_diff

Closer(time_diff, tolerance, min_time_diff) ==
    time_diff <= tolerance /\ time_diff < min_time_diff

\* the loop of find_closest_sub from record i on; the result is the index of
\* closest_sub in subs, 0 for None
RECURSIVE ClosestFrom(_, _, _, _, _, _)
ClosestFrom(start_time_td, subs, tolerance, i, closest_sub, min_time_diff) ==
    IF i > Len(subs) THEN closest_sub
    ELSE LET time_diff == Abs(to_timedelta(subs[i].start) - start_time_td)
         IN  IF Closer(time_diff, tolerance, min_time_diff)
             THEN ClosestFrom(start_time_td, subs, tolerance, i + 1, i, time_diff)
             ELSE ClosestFrom(start_time_td, subs, tolerance, i + 1,
                              closest_sub, min_time_diff)

find_closest_sub(start_time, subs, tolerance) ==
    ClosestFrom(to_timedelta(start_time), subs, tolerance, 1, 0, TimedeltaMax)

\* ------------------------------------------------------------------------
\* The directory tree: what os.walk, pysrt.open and os.path.exists see.
\* A tree is the sequence of its directories in os.walk order, a directory the
\* sequence of its files in the order os.walk lists them, a file its name,
\* whether pysrt.open loads it (ok) and the records it loads.

Time(m, s, ms) == [hours |-> 0, minutes |-> m, seconds |-> s, milliseconds |-> ms]

Sub(text, start, end) == [text |-> text, start |-> start, end |-> end]

File(name, ok, subs) == [name |-> name, ok |-> ok, subs |-> subs]

\* "Hi", "oh hi", "<i>Hi</i>\n you ", "bye"
TxtHi == <<72, 105>>
TxtOhHi == <<111, 104, 32, 104, 105>>
TxtItalicHi == <<60, 105, 62, 72, 105, 60, 47, 105, 62, 10, 32, 121, 111, 117, 32>>
TxtBye == <<98, 121, 101>>
\* Cyrillic "Da", "da net", "<i>Ey</i>", and a blank text " "
TxtDa == <<1044, 1072>>
TxtDaNet == <<1076, 1072, 32, 1085, 1077, 1090>>
TxtEy == <<60, 105, 62, 1069, 1081, 60, 47, 105, 62>>
TxtBlank == <<32>>

\* "<base>_<lang>.srt" for a one-letter base, and "notes.txt"
SrtName(base, lang) == <<base, 95>> \o lang \o <<46, 115, 114, 116>>
NotesTxt == <<110, 111, 116, 101, 115, 46, 116, 120, 116>>

\* a_en.srt: seven records that contain "hi"; a_ru.srt: its translation, not in
\* chronological order, with a blank record and records exactly one second away
DirA ==
    << File(SrtName(97, <<101, 110>>), TRUE,
            << Sub(TxtHi, Time(0, 1, 0), Time(0, 1, 500)),
               Sub(TxtOhHi, Time(0, 2, 0), Time(0, 2, 500)),
               Sub(TxtItalicHi, Time(0, 3, 0), Time(0, 3, 500)),
               Sub(TxtHi, Time(0, 4, 0), Time(0, 4, 500)),
               Sub(TxtOhHi, Time(0, 5, 0), Time(0, 5, 500)),
               Sub(TxtHi, Time(0, 6, 100), Time(0, 6, 500)),
               Sub(TxtHi, Time(1, 0, 0), Time(1, 0, 500)) >>),
       File(SrtName(97, <<114, 117>>), TRUE,
            << Sub(TxtDa, Time(0, 1, 200), Time(0, 1, 700)),
               Sub(TxtBlank, Time(0, 2, 0), Time(0, 2, 500)),
               Sub(TxtEy, Time(0, 59, 500), Time(1, 0, 0)),
               Sub(TxtDaNet, Time(0, 4, 0), Time(0, 4, 500)) >>) >>

\* f_en.srt without a sibling; b_en.srt whose sibling b_ru.srt does not load;
\* c_en.srt without a sibling; a file that is no subtitle file
DirB ==
    << File(SrtName(102, <<101, 110>>), TRUE,
            << Sub(TxtHi, Time(0, 1, 0), Time(0, 1, 500)),
               Sub(TxtHi, Time(0, 2, 0), Time(0, 2, 500)),
               Sub(TxtOhHi, Time(0, 3, 0), Time(0, 3, 500)),
               Sub(TxtHi, Time(0, 4, 0), Time(0, 4, 500)) >>),
       File(SrtName(98, <<101, 110>>), TRUE,
            << Sub(TxtHi, Time(0, 1, 0), Time(0, 1, 500)),
               Sub(TxtOhHi, Time(0, 2, 0), Time(0, 2, 500)) >>),
       File(SrtName(98, <<114, 117>>), FALSE, <<>>),
       File(SrtName(99, <<101, 110>>), TRUE,
            << Sub(TxtBye, Time(0, 1, 0), Time(0, 1, 500)),
               Sub(TxtHi, Time(0, 2, 0), Time(0, 2, 500)),
               Sub(TxtOhHi, Time(0, 3, 0), Time(0, 3, 500)) >>),
       File(NotesTxt, TRUE, <<>>) >>

\* d_en.srt does not load; e_en.srt has six matches and an empty sibling;
\* d_ru.srt has one record, and d_en.srt is its sibling
DirC ==
    << File(SrtName(100, <<101, 110>>), FALSE, <<>>),
       File(SrtName(101, <<101, 110>>), TRUE,
            << Sub(TxtHi, Time(0, 1, 0), Time(0, 1, 500)),
               Sub(TxtHi, Time(0, 2, 0), Time(0, 2, 500)),
               Sub(TxtHi, Time(0, 3, 0), Time(0, 3, 500)),
               Sub(TxtOhHi, Time(0, 4, 0), Time(0, 4, 500)),
               Sub(TxtHi, Time(0, 5, 0), Time(0, 5, 500)),
               Sub(TxtHi, Time(0, 6, 0), Time(0, 6, 500)) >>),
       File(SrtName(101, <<114, 117>>), TRUE, <<>>),
       File(SrtName(100, <<114, 117>>), TRUE,
            << Sub(TxtDa, Time(0, 1, 0), Time(0, 1, 500)) >>) >>

\* a directory without subtitle files
DirD == << File(NotesTxt, TRUE, <<>>) >>

DirPool == {DirA, DirB, DirC, DirD}

Trees == UNION {[1..n -> DirPool] : n \in 1..MaxDirs}

\* what conn.recv(1024).decode() returns: "Hi\n", " no", Cyrillic "DA", "i>"
\* followed by Cyrillic "Ey", a blank line, and "" (the peer closed its side)
RawQueries ==
    {<<72, 105, 10>>, <<32, 110, 111>>, <<1044, 1040>>, <<105, 62, 1069, 1081>>,
     <<32, 10>>, <<>>}

\* ------------------------------------------------------------------------
\* State

VARIABLES
    tree,           \* the directory tree under subtitles_directory
    pc,             \* where the session's worker is (see the actions)
    search_str,     \* handle_client: the stripped query
    root,           \* os.walk: index of the directory being listed
    file,           \* for file in files: index of the file in that directory
    sub,            \* for sub in subs: index of the record in the loaded file
    found_matches,  \* stream_subtitle_search, then handle_client: found_matches
    count,          \* stream_subtitle_search: count
    result,         \* the result being assembled for the matched record
    out,            \* what has been written to conn for the current query
    queries,        \* how many queries the session has read
    failures,       \* what failed during the current query: load, lookup, send
    data,           \* handle_client: what conn.recv(1024).decode() last returned
    fc,             \* SpecClosest: the call of find_closest_sub and its result
    prev,           \* SpecTwice: a completed query of the session and its response
    pf,             \* SpecNormalize, SpecPairing: the call of a pure function
    cl,             \* SpecClient: start_client's receive loop and its socket
    ss              \* SpecSessions: the concurrent handle_client workers

vars == <<tree, pc, search_str, root, file, sub, found_matches, count, result,
          out, queries, failures, data, fc, prev, pf, cl, ss>>

\* the state of the other specifications
aux == <<prev, pf, cl, ss>>

walkVars == <<root, file, sub>>

NoResult == <<>>

\* the items written to conn
NoResultsMsg == [kind |-> "notice"]
EndMarker == [kind |-> "end"]
Frame(r) == [kind |-> "frame", result |-> r]

\* ------------------------------------------------------------------------
\* stream_subtitle_search

\* lines 101-106
lang_suffix(query) == IF is_russian(query) THEN <<114, 117>> ELSE <<101, 110>>
other_lang_suffix(query) == IF is_russian(query) THEN <<101, 110>> ELSE <<114, 117>>

\* lang_suffix.upper()
Upper(suffix) == [i \in 1..Len(suffix) |-> IF suffix[i] \in 97..122 THEN suffix[i] - 32
                                                               ELSE suffix[i]]

\* file.endswith(f"_{lang_suffix}.srt")
IsPrimaryFile(name, query) ==
    EndsWith(name, <<95>> \o lang_suffix(query) \o <<46, 115, 114, 116>>)

\* search_string.lower() in sub.text.lower()
MatchesCaseSensitive(query, text) == Contains(query, text)

Matches(query, text) == Contains(Lower(query), Lower(text))

\* if count >= SEARCH_LIMIT
CapReachedExactly(c) == c = SEARCH_LIMIT

CapReached(c) == c >= SEARCH_LIMIT

\* os.path.join(root, file): the directory and the base name
Path(d, name) == [dir |-> d, name |-> name]

\* find_translation_in_other_lang, lines 54-60: the path of the sibling file
OtherLangPath(file_path, from_lang_suffix, to_lang_suffix) ==
    Path(file_path.dir,
         Replace(file_path.name, <<95>> \o from_lang_suffix, <<95>> \o to_lang_suffix))

\* os.path.exists
Exists(t, path) ==
    \E f \in 1..Len(t[path.dir]) : t[path.dir][f].name = path.name

FileAt(t, path) ==
    t[path.dir][CHOOSE f \in 1..Len(t[path.dir]) : t[path.dir][f].name = path.name]

\* find_translation_in_other_lang raises: pysrt.open of the sibling fails
TranslationRaises(t, file_path, from_lang_suffix, to_lang_suffix) ==
    LET other == OtherLangPath(file_path, from_lang_suffix, to_lang_suffix)
    IN  Exists(t, other) /\ ~FileAt(t, other).ok

\* find_translation_in_other_lang when it returns: <<>> for the tuple of Nones,
\* else the one tuple (text.strip(), start, end, path)
find_translation_in_other_lang(t, start_time, file_path, from_lang_suffix, to_lang_suffix, tolerance) ==
    LET other == OtherLangPath(file_path, from_lang_suffix, to_lang_suffix)
    IN  IF Exists(t, other)
        THEN LET subs == FileAt(t, other).subs
                 closest_sub == find_closest_sub(start_time, subs, tolerance)
             IN  IF closest_sub # 0
                 THEN << [text |-> Strip(subs[closest_sub].text),
                          start |-> subs[closest_sub].start,
                          end |-> subs[closest_sub].end,
                          file |-> other] >>
                 ELSE <<>>
        ELSE <<>>

\* lines 124-168: the result dictionary of a matched record; translation is
\* <<>> for None
BuildResult(t, query, d, f, r) ==
    LET file_path == Path(d, t[d][f].name)
        rec == t[d][f].subs[r]
        tr == find_translation_in_other_lang(t, rec.start, file_path,
                  lang_suffix(query), other_lang_suffix(query), DefaultTolerance)
    IN  [original |-> [language |-> Upper(lang_suffix(query)),
                       file |-> file_path,
                       start_time |-> rec.start,
                       end_time |-> rec.end,
                       text |-> NormalizeOriginal(rec.text)],
         translation |->
             IF tr # <<>> /\ tr[1].text # <<>>
             THEN << [language |-> Upper(other_lang_suffix(query)),
                      file |-> tr[1].file,
                      start_time |-> tr[1].start,
                      end_time |-> tr[1].end,
                      text |-> NormalizeTranslation(tr[1].text)] >>
             ELSE <<>>]

\* handle_client, lines 195-199: what follows the return of the search
AfterSearchInverted(found) == IF found THEN "notice" ELSE "end"

AfterSearch(found) == IF found THEN "end" ELSE "notice"

\* ------------------------------------------------------------------------
\* The session of one connection: handle_client and the search it runs.
\* pc: "recv"   at conn.recv (line 185)
\*     "walk"   in `for file in files` of os.walk, before the file (lines 111-113)
\*     "scan"   in `for sub in subs`, before the test of the record (lines 117-118)
\*     "lookup" at the call of find_translation_in_other_lang (line 145)
\*     "send"   at conn.sendall of the formatted result (line 171)
\*     "notice" the search returned False: at conn.sendall of the notice (line 197)
\*     "end"    at conn.sendall of the end marker (line 199)
\*     "closed" after conn.close() (line 204)

NoCall == [start_time |-> Time(0, 0, 0), subs |-> <<>>, tolerance |-> 0,
           called |-> FALSE, closest_sub |-> 0]

\* the other specifications at rest
NoPrev == <<>>
NoPure == [fn |-> "none", arg |-> <<>>, called |-> FALSE, result |-> <<>>]
NoClient == [receiving |-> FALSE]
NoSessions == <<>>

Idle ==
    /\ prev = NoPrev
    /\ pf = NoPure
    /\ cl = NoClient
    /\ ss = NoSessions

Init ==
    /\ tree \in Trees
    /\ pc = "recv"
    /\ search_str = <<>>
    /\ root = 1 /\ file = 1 /\ sub = 0
    /\ found_matches = FALSE
    /\ count = 0
    /\ result = NoResult
    /\ out = <<>>
    /\ queries = 0
    /\ failures = {}
    /\ data = <<>>
    /\ fc = NoCall
    /\ Idle

\* a search started with the counter of the previous one
RecvQueryKeepsCount ==
    /\ pc = "recv"
    /\ queries < MaxQueries
    /\ \E raw \in RawQueries :
          /\ data' = <<raw>>
          /\ Strip(raw) # <<>>
          /\ search_str' = Strip(raw)
    /\ queries' = queries + 1
    /\ found_matches' = FALSE
    /\ root' = 1 /\ file' = 1 /\ sub' = 0
    /\ result' = NoResult
    /\ out' = <<>>
    /\ failures' = {}
    /\ pc' = "walk"
    /\ UNCHANGED <<tree, count, fc, aux>>

\* lines 185-191: a non-blank query is read and the search starts
RecvQuery ==
    /\ pc = "recv"
    /\ queries < MaxQueries
    /\ \E raw \in RawQueries :
          /\ data' = <<raw>>
          /\ Strip(raw) # <<>>
          /\ search_str' = Strip(raw)
    /\ queries' = queries + 1
    /\ found_matches' = FALSE
    /\ count' = 0
    /\ root' = 1 /\ file' = 1 /\ sub' = 0
    /\ result' = NoResult
    /\ out' = <<>>
    /\ failures' = {}
    /\ pc' = "walk"
    /\ UNCHANGED <<tree, fc, aux>>

\* a blank read answered with the end marker before the connection is closed
RecvBlankAnswers ==
    /\ pc = "recv"
    /\ \E raw \in RawQueries :
          /\ data' = <<raw>>
          /\ Strip(raw) = <<>>
    /\ out' = Append(out, EndMarker)
    /\ pc' = "closed"
    /\ UNCHANGED <<tree, search_str, walkVars, found_matches, count, result,
                   queries, failures, fc, aux>>

\* lines 185-187, 204: a blank read ends the loop and the connection is closed
RecvBlank ==
    /\ pc = "recv"
    /\ \E raw \in RawQueries :
          /\ data' = <<raw>>
          /\ Strip(raw) = <<>>
    /\ pc' = "closed"
    /\ UNCHANGED <<tree, search_str, walkVars, found_matches, count, result, out,
                   queries, failures, fc, aux>>

\* lines 185, 201-204: recv or decode raises
RecvFails ==
    /\ pc = "recv"
    /\ pc' = "closed"
    /\ failures' = failures \cup {"recv"}
    /\ UNCHANGED <<tree, search_str, walkVars, found_matches, count, result, out,
                   queries, data, fc, aux>>

\* line 111: the files of the directory are exhausted, os.walk yields the next
WalkNextDir ==
    /\ pc = "walk"
    /\ root < Len(tree)
    /\ file > Len(tree[root])
    /\ root' = root + 1
    /\ file' = 1
    /\ UNCHANGED <<tree, pc, search_str, sub, found_matches, count, result, out,
                   queries, failures, data, fc, aux>>

\* line 113: the name does not end with _<lang>.srt
WalkSkipFile ==
    /\ pc = "walk"
    /\ file <= Len(tree[root])
    /\ ~IsPrimaryFile(tree[root][file].name, search_str)
    /\ file' = file + 1
    /\ UNCHANGED <<tree, pc, search_str, root, sub, found_matches, count, result,
                   out, queries, failures, data, fc, aux>>

\* line 116: pysrt.open loads the file
OpenFile ==
    /\ pc = "walk"
    /\ file <= Len(tree[root])
    /\ IsPrimaryFile(tree[root][file].name, search_str)
    /\ tree[root][file].ok
    /\ sub' = 1
    /\ pc' = "scan"
    /\ UNCHANGED <<tree, search_str, root, file, found_matches, count, result,
                   out, queries, failures, data, fc, aux>>

\* lines 116, 175-176: pysrt.open raises, the error is printed, next file
OpenFileFails ==
    /\ pc = "walk"
    /\ file <= Len(tree[root])
    /\ IsPrimaryFile(tree[root][file].name, search_str)
    /\ ~tree[root][file].ok
    /\ file' = file + 1
    /\ failures' = failures \cup {"load"}
    /\ UNCHANGED <<tree, pc, search_str, root, sub, found_matches, count, result,
                   out, queries, data, fc, aux>>

\* lines 111, 178: no directory is left, return found_matches
WalkDone ==
    /\ pc = "walk"
    /\ root = Len(tree)
    /\ file > Len(tree[root])
    /\ pc' = AfterSearch(found_matches)
    /\ UNCHANGED <<tree, search_str, walkVars, found_matches, count, result, out,
                   queries, failures, data, fc, aux>>

\* lines 117-120: the record does not contain the query
ScanNoMatch ==
    /\ pc = "scan"
    /\ sub <= Len(tree[root][file].subs)
    /\ ~Matches(search_str, tree[root][file].subs[sub].text)
    /\ sub' = sub + 1
    /\ UNCHANGED <<tree, pc, search_str, root, file, found_matches, count, result,
                   out, queries, failures, data, fc, aux>>

\* lines 117-122: the record contains the query
ScanMatch ==
    /\ pc = "scan"
    /\ sub <= Len(tree[root][file].subs)
    /\ Matches(search_str, tree[root][file].subs[sub].text)
    /\ found_matches' = TRUE
    /\ count' = count + 1
    /\ pc' = "lookup"
    /\ UNCHANGED <<tree, search_str, walkVars, result, out, queries, failures, data, fc, aux>>

\* line 117: the records of the file are exhausted, next file
ScanEndOfFile ==
    /\ pc = "scan"
    /\ sub > Len(tree[root][file].subs)
    /\ sub' = 0
    /\ file' = file + 1
    /\ pc' = "walk"
    /\ UNCHANGED <<tree, search_str, root, found_matches, count, result, out,
                   queries, failures, data, fc, aux>>

\* lines 124-170: the translation lookup returns and the result is formatted
LookupTranslation ==
    /\ pc = "lookup"
    /\ ~TranslationRaises(tree, Path(root, tree[root][file].name),
                          lang_suffix(search_str), other_lang_suffix(search_str))
    /\ result' = <<BuildResult(tree, search_str, root, file, sub)>>
    /\ pc' = "send"
    /\ UNCHANGED <<tree, search_str, walkVars, found_matches, count, out, queries,
                   failures, data, fc, aux>>

\* lines 145, 63, 175-176: pysrt.open of the sibling raises inside the lookup;
\* the handler of the file loop catches it, the rest of the file is dropped
LookupFails ==
    /\ pc = "lookup"
    /\ TranslationRaises(tree, Path(root, tree[root][file].name),
                         lang_suffix(search_str), other_lang_suffix(search_str))
    /\ failures' = failures \cup {"lookup"}
    /\ sub' = 0
    /\ file' = file + 1
    /\ pc' = "walk"
    /\ UNCHANGED <<tree, search_str, root, found_matches, count, result, out,
                   queries, data, fc, aux>>

\* lines 171-174: the frame is written; at the cap the search returns True
SendFrame ==
    /\ pc = "send"
    /\ "send" \notin failures
    /\ out' = Append(out, Frame(result[1]))
    /\ result' = NoResult
    /\ IF CapReached(count)
       THEN /\ found_matches' = TRUE
            /\ pc' = AfterSearch(TRUE)
            /\ UNCHANGED walkVars
       ELSE /\ sub' = sub + 1
            /\ pc' = "scan"
            /\ UNCHANGED <<root, file, found_matches>>
    /\ UNCHANGED <<tree, search_str, count, queries, failures, data, fc, aux>>

\* lines 171, 175-176: sendall raises (the peer is gone, and stays gone); the
\* handler of the file loop catches it, the rest of the file is dropped
SendFrameFails ==
    /\ pc = "send"
    /\ failures' = failures \cup {"send"}
    /\ result' = NoResult
    /\ sub' = 0
    /\ file' = file + 1
    /\ pc' = "walk"
    /\ UNCHANGED <<tree, search_str, root, found_matches, count, out, queries, data, fc, aux>>

\* lines 195-197
SendNotice ==
    /\ pc = "notice"
    /\ "send" \notin failures
    /\ out' = Append(out, NoResultsMsg)
    /\ pc' = "end"
    /\ UNCHANGED <<tree, search_str, walkVars, found_matches, count, result,
                   queries, failures, data, fc, aux>>

\* lines 197, 201-204
SendNoticeFails ==
    /\ pc = "notice"
    /\ failures' = failures \cup {"send"}
    /\ pc' = "closed"
    /\ UNCHANGED <<tree, search_str, walkVars, found_matches, count, result, out,
                   queries, data, fc, aux>>

\* the marker written under `if not found_matches` only
SendEndIndented ==
    /\ pc = "end"
    /\ "send" \notin failures
    /\ out' = IF found_matches THEN out ELSE Append(out, EndMarker)
    /\ pc' = "recv"
    /\ UNCHANGED <<tree, search_str, walkVars, found_matches, count, result,
                   queries, failures, data, fc, aux>>

\* line 199, then back to recv
SendEnd ==
    /\ pc = "end"
    /\ "send" \notin failures
    /\ out' = Append(out, EndMarker)
    /\ pc' = "recv"
    /\ UNCHANGED <<tree, search_str, walkVars, found_matches, count, result,
                   queries, failures, data, fc, aux>>

\* lines 199, 201-204
SendEndFails ==
    /\ pc = "end"
    /\ failures' = failures \cup {"send"}
    /\ pc' = "closed"
    /\ UNCHANGED <<tree, search_str, walkVars, found_matches, count, result, out,
                   queries, data, fc, aux>>

Next ==
    \/ RecvQuery \/ RecvBlank \/ RecvFails
    \/ WalkNextDir \/ WalkSkipFile \/ OpenFile \/ OpenFileFails \/ WalkDone
    \/ ScanNoMatch \/ ScanMatch \/ ScanEndOfFile
    \/ LookupTranslation \/ LookupFails
    \/ SendFrame \/ SendFrameFails
    \/ SendNotice \/ SendNoticeFails
    \/ SendEnd \/ SendEndFails

Spec == Init /\ [][Next]_vars

\* ------------------------------------------------------------------------
\* find_closest_sub on its own: every target time, tolerance and record
\* sequence of the bounded sets below, then one call.

ClosestTimes == {Time(0, 0, 500), Time(0, 1, 0), Time(0, 1, 500), Time(0, 59, 900),
                 Time(1, 0, 400)}

ClosestTolerances == {0 - 500, 0, 500, DefaultTolerance}

ClosestSubs == {Sub(TxtHi, t, t) : t \in ClosestTimes}

InitClosest ==
    /\ tree = <<DirD>>
    /\ pc = "closed"
    /\ search_str = <<>>
    /\ root = 1 /\ file = 1 /\ sub = 0
    /\ found_matches = FALSE
    /\ count = 0
    /\ result = NoResult
    /\ out = <<>>
    /\ queries = 0
    /\ failures = {}
    /\ data = <<>>
    /\ Idle
    /\ \E start_time \in ClosestTimes, tolerance \in ClosestTolerances,
          n \in 0..MaxSubs :
          \E subs \in [1..n -> ClosestSubs] :
             fc = [start_time |-> start_time, subs |-> subs, tolerance |-> tolerance,
                   called |-> FALSE, closest_sub |-> 0]

\* lines 27-43
CallFindClosestSub ==
    /\ ~fc.called
    /\ fc' = [fc EXCEPT !.called = TRUE,
                        !.closest_sub = find_closest_sub(fc.start_time, fc.subs,
                                                         fc.tolerance)]
    /\ UNCHANGED <<tree, pc, search_str, walkVars, found_matches, count, result,
                   out, queries, failures, data, aux>>

NextClosest == CallFindClosestSub

SpecClosest == InitClosest /\ [][NextClosest]_vars

\* ------------------------------------------------------------------------
\* Properties

\* a subtitle time in milliseconds since zero
Millis(t) == t.hours * 3600000 + t.minutes * 60000 + t.seconds * 1000 + t.milliseconds

\* |start - T| of record i of the call
StartDiff(i) == Abs(Millis(fc.subs[i].start) - Millis(fc.start_time))

\* C8: find_closest_sub returns a record if and only if some record of the
\* sequence has |start - T| <= W (boundary included), and the record it returns
\* has the minimum |start - T| over all records of the sequence.
C8_ClosestWithinTolerance ==
    fc.called =>
        /\ (fc.closest_sub # 0) <=>
               (\E i \in 1..Len(fc.subs) : StartDiff(i) <= fc.tolerance)
        /\ fc.closest_sub # 0 =>
               /\ fc.closest_sub \in 1..Len(fc.subs)
               /\ \A j \in 1..Len(fc.subs) : StartDiff(fc.closest_sub) <= StartDiff(j)

\* a call that returns a record exactly on the tolerance boundary, from an
\* unsorted sequence with a duplicate timestamp
C8_Witness ==
    /\ fc.called
    /\ fc.closest_sub # 0
    /\ StartDiff(fc.closest_sub) = fc.tolerance
    /\ fc.tolerance > 0
    /\ Len(fc.subs) >= 3
    /\ \E i, j \in 1..Len(fc.subs) :
          /\ i < j
          /\ Millis(fc.subs[i].start) > Millis(fc.subs[j].start)
    /\ \E i, j \in 1..Len(fc.subs) : i # j /\ fc.subs[i].start = fc.subs[j].start

\* ---- the search and the session

IsFrame(item) == item.kind = "frame"

\* the match frames written for the current query
Frames(o) == SelectSeq(o, IsFrame)

NumFrames(o) == Len(Frames(o))

\* the search of the current query has returned
SearchOver == queries > 0 /\ pc \in {"notice", "end", "recv", "closed"}

\* the response of the current query is complete or the session has ended
QueryOver == queries > 0 /\ pc \in {"recv", "closed"}

\* case folding, by upper-casing Latin and Cyrillic small letters
Fold(c) ==
    IF c \in 97..122 \/ c \in 1072..1103 THEN c - 32
    ELSE IF c \in 1104..1119 THEN c - 80
    ELSE c

\* text contains query as a case-insensitive substring
ContainsIgnoringCase(query, text) ==
    \E i \in 1..(Len(text) - Len(query) + 1) :
        \A k \in 1..Len(query) : Fold(text[i + k - 1]) = Fold(query[k])

\* the language tag whose files are primary for the query
PrimaryTag(query) ==
    IF \A i \in 1..Len(query) : query[i] \in 0..127 THEN <<101, 110>> ELSE <<114, 117>>

\* the positions <<directory, file, record>> of the records of successfully
\* loaded primary-language files that contain the query
MatchPositions(t, query) ==
    {p \in UNION {UNION {{<<d, f, r>> : r \in 1..Len(t[d][f].subs)} :
                         f \in 1..Len(t[d])} : d \in 1..Len(t)} :
        /\ EndsWith(t[p[1]][p[2]].name,
                    <<95>> \o PrimaryTag(query) \o <<46, 115, 114, 116>>)
        /\ t[p[1]][p[2]].ok
        /\ ContainsIgnoringCase(query, t[p[1]][p[2]].subs[p[3]].text)}

\* discovery order: directories in traversal order, files in listing order,
\* records in the order of the loaded sequence
Before(p, q) ==
    \/ p[1] < q[1]
    \/ p[1] = q[1] /\ p[2] < q[2]
    \/ p[1] = q[1] /\ p[2] = q[2] /\ p[3] < q[3]

RECURSIVE InDiscoveryOrder(_)
InDiscoveryOrder(S) ==
    IF S = {} THEN <<>>
    ELSE LET first == CHOOSE p \in S : \A q \in S \ {p} : Before(p, q)
         IN  <<first>> \o InDiscoveryOrder(S \ {first})

Min(a, b) == IF a < b THEN a ELSE b

\* which record a frame is about: the file and the times of its original block
FrameKey(item) ==
    [file |-> item.result.original.file,
     start_time |-> item.result.original.start_time,
     end_time |-> item.result.original.end_time]

RecordKey(t, p) ==
    [file |-> [dir |-> p[1], name |-> t[p[1]][p[2]].name],
     start_time |-> t[p[1]][p[2]].subs[p[3]].start,
     end_time |-> t[p[1]][p[2]].subs[p[3]].end]

\* the records of the frames written, in the order written
FrameKeys(o) == [i \in 1..NumFrames(o) |-> FrameKey(Frames(o)[i])]

\* the first min(n, 12) matching records in discovery order
ExpectedKeys(t, query) ==
    LET all == InDiscoveryOrder(MatchPositions(t, query))
    IN  [i \in 1..Min(Len(all), SEARCH_LIMIT) |-> RecordKey(t, all[i])]

\* C1: the number of match frames written for a query never exceeds 12, also
\* when primary files fail to load or a translation lookup or a send raises.
C1_AtMostTwelveFrames == NumFrames(out) <= SEARCH_LIMIT

\* twelve frames written in a run where a lookup raised, so that the counter
\* passed 12 before the return
C1_Witness ==
    /\ NumFrames(out) = SEARCH_LIMIT
    /\ count > SEARCH_LIMIT
    /\ "lookup" \in failures
    /\ pc = "recv"

\* C2: once the counter has reached 12 no further directory is visited, no
\* further file is opened and no further record is tested for that query, also
\* when processing of the twelfth counted match raised.
C2_CapStopsWalk ==
    [][count >= SEARCH_LIMIT =>
          ~(WalkNextDir \/ OpenFile \/ OpenFileFails \/ ScanNoMatch \/ ScanMatch)]_vars

\* C3: provided the writes succeed, the end marker is written exactly once for
\* a query, it is the last item written for it, and it has been written when
\* the next query is read or the session ends.
C3_EndMarkerOnceAndLast ==
    /\ \A i \in 1..Len(out) : out[i] = EndMarker => i = Len(out)
    /\ (\E i \in 1..Len(out) : out[i] = EndMarker) => pc \in {"recv", "closed"}
    /\ (QueryOver /\ "send" \notin failures) =>
           /\ out # <<>>
           /\ out[Len(out)] = EndMarker

\* a query with frames and one with the notice, each closed by the marker
C3_Witness ==
    /\ pc = "recv"
    /\ queries = MaxQueries
    /\ Len(out) >= 3
    /\ out[Len(out)] = EndMarker
    /\ IsFrame(out[1])

\* the notice is among the items written
NoticeWritten(o) == \E i \in 1..Len(o) : o[i] = NoResultsMsg

\* C4 as stated: a query that no record of a loaded primary-language file
\* contains is answered by exactly the notice and the end marker, and a query
\* that some record contains never gets the notice.
C4_NoticeIffNoMatch ==
    QueryOver =>
        /\ MatchPositions(tree, search_str) = {} => out = <<NoResultsMsg, EndMarker>>
        /\ MatchPositions(tree, search_str) # {} => ~NoticeWritten(out)

\* C4 amended: the same, the exact response being required only of a query
\* whose writes to the connection succeed; no frame is written for a query
\* without a match and no notice for a query with one, whatever fails.
C4_NoticeIffNoMatchWhenWritesSucceed ==
    queries > 0 =>
        /\ MatchPositions(tree, search_str) = {} =>
               /\ NumFrames(out) = 0
               /\ (QueryOver /\ "send" \notin failures) =>
                      out = <<NoResultsMsg, EndMarker>>
        /\ MatchPositions(tree, search_str) # {} => ~NoticeWritten(out)

\* a query without a match, in a tree where a primary file failed to load,
\* answered by the notice and the marker
C4_Witness ==
    /\ pc = "recv"
    /\ queries > 0
    /\ "load" \in failures
    /\ MatchPositions(tree, search_str) = {}
    /\ out = <<NoResultsMsg, EndMarker>>

\* the sibling of the file of position p (same directory, the language tag of
\* the name swapped) exists and does not load
SiblingFails(t, query, p) ==
    LET name == t[p[1]][p[2]].name
        other == IF PrimaryTag(query) = <<101, 110>> THEN <<114, 117>> ELSE <<101, 110>>
        sibling == SubSeq(name, 1, Len(name) - 6) \o other \o <<46, 115, 114, 116>>
    IN  \E f \in 1..Len(t[p[1]]) : t[p[1]][f].name = sibling /\ ~t[p[1]][f].ok

\* C5: a translation file that fails to load counts as "no translation": each
\* of the first 12 matching records whose sibling fails to load still gets its
\* frame, without a translation block (writes succeeding).
C5_LookupFailureKeepsFrame ==
    (SearchOver /\ "send" \notin failures) =>
        LET all == InDiscoveryOrder(MatchPositions(tree, search_str))
        IN  \A i \in 1..Min(Len(all), SEARCH_LIMIT) :
                SiblingFails(tree, search_str, all[i]) =>
                    \E j \in 1..Len(out) :
                        /\ IsFrame(out[j])
                        /\ FrameKey(out[j]) = RecordKey(tree, all[i])
                        /\ out[j].result.translation = <<>>

\* C6: after a failed write of a frame the session does nothing but close its
\* connection: no further file, no further send.
C6_SendFailureEndsSession == "send" \in failures => pc = "closed"

\* C7: when a primary file fails to load, the matching records of the other
\* primary files, up to the cap, are all emitted (writes succeeding), and the
\* return value tells whether there was one.
C7_LoadFailureSkipsFile ==
    (SearchOver /\ "load" \in failures /\ "send" \notin failures) =>
        /\ FrameKeys(out) = ExpectedKeys(tree, search_str)
        /\ found_matches <=> MatchPositions(tree, search_str) # {}

\* no load, lookup or send has failed during the query
NoFailure == failures \cap {"load", "lookup", "send"} = {}

\* C9: without load, lookup or send failures the frames written are, at every
\* moment, the first matching records in discovery order, none skipped,
\* reordered or repeated, and when the search is over they are exactly the
\* first min(n, 12) of them.
C9_FramesInDiscoveryOrder ==
    (queries > 0 /\ NoFailure) =>
        LET expected == ExpectedKeys(tree, search_str)
        IN  /\ NumFrames(out) <= Len(expected)
            /\ FrameKeys(out) = SubSeq(expected, 1, NumFrames(out))
            /\ SearchOver => FrameKeys(out) = expected

\* a search of a tree with more than 12 matching records, over, without a
\* failure, twelve frames written
C9_Witness ==
    /\ SearchOver
    /\ NoFailure
    /\ Cardinality(MatchPositions(tree, search_str)) > SEARCH_LIMIT
    /\ NumFrames(out) = SEARCH_LIMIT
    /\ \E i \in 1..Len(out) : IsFrame(out[i]) /\ out[i].result.translation # <<>>

\* C10: the frame of a match is written before any later record is examined
\* or any later file opened: while the writes succeed, the matches counted
\* exceed the frames written by at most one, and by none when the scan is at
\* a later record or file.
C10_StreamedNotBatched ==
    "send" \notin failures =>
        /\ count - NumFrames(out) <= 1
        /\ pc \in {"walk", "scan"} => count = NumFrames(out)

\* the name of the sibling of a primary file: the trailing language tag of the
\* name replaced by the other one
SiblingName(query, name) ==
    LET other == IF PrimaryTag(query) = <<101, 110>> THEN <<114, 117>> ELSE <<101, 110>>
    IN  SubSeq(name, 1, Len(name) - 6) \o other \o <<46, 115, 114, 116>>

\* the sibling of the file of a frame exists and has a record whose start is
\* within one second of the start of the matched record
HasAlignedRecord(t, query, item) ==
    LET orig == item.result.original
    IN  \E f \in 1..Len(t[orig.file.dir]) :
            /\ t[orig.file.dir][f].name = SiblingName(query, orig.file.name)
            /\ \E r \in 1..Len(t[orig.file.dir][f].subs) :
                   Abs(Millis(t[orig.file.dir][f].subs[r].start)
                       - Millis(orig.start_time)) <= 1000

\* C12: a frame carries a translation block if and only if the sibling file
\* exists and has at least one record starting within one second of the
\* matched record; otherwise it carries "No corresponding translation found."
C12_TranslationIffAligned ==
    \A i \in 1..Len(out) :
        IsFrame(out[i]) =>
            (out[i].result.translation # <<>>
                 <=> HasAlignedRecord(tree, search_str, out[i]))

\* the step reads a query that is empty or whitespace only
BlankRead == data' # data /\ Strip(data'[1]) = <<>>

\* C13: a read of an empty or whitespace-only query ends the session cleanly:
\* no search is run, nothing is written to the connection, the connection is
\* closed, no error is reported, and a closed session does nothing more.
C13_BlankQueryEndsCleanly ==
    [][/\ BlankRead =>
              /\ pc' = "closed"
              /\ out' = out
              /\ failures' = failures
              /\ UNCHANGED <<walkVars, found_matches, count, result, queries>>
       /\ pc = "closed" => UNCHANGED vars]_vars

\* a session closed by a whitespace-only read after an answered query
C13_Witness ==
    /\ pc = "closed"
    /\ data = <<(<<32, 10>>)>>
    /\ queries > 0
    /\ out # <<>>
    /\ out[Len(out)] = EndMarker
    /\ failures \cap {"send", "recv"} = {}

\* ------------------------------------------------------------------------
\* The normalisation of the texts of a frame, on texts built from tokens

\* the server of the specifications that call one function only
Quiescent ==
    /\ tree = <<DirD>>
    /\ pc = "closed"
    /\ search_str = <<>>
    /\ root = 1 /\ file = 1 /\ sub = 0
    /\ found_matches = FALSE
    /\ count = 0
    /\ result = NoResult
    /\ out = <<>>
    /\ queries = 0
    /\ failures = {}
    /\ data = <<>>
    /\ fc = NoCall

quiescentVars == <<tree, pc, search_str, walkVars, found_matches, count, result,
                   out, queries, failures, data, fc>>

\* the longest record text, in tokens
MaxTokens == 4

\* a space, a newline, a letter and the two italic tags
TextTokens == {<<32>>, <<10>>, <<97>>, ItalicOpen, ItalicClose}

RECURSIVE Flatten(_)
Flatten(parts) == IF parts = <<>> THEN <<>> ELSE Head(parts) \o Flatten(Tail(parts))

\* sub.text of a record
RecordTexts ==
    {Flatten(toks) : toks \in UNION {[1..n -> TextTokens] : n \in 0..MaxTokens}}

\* the text of a record that is about to be placed in a frame; a translation
\* reaches line 154 stripped (line 71) and only if it is not empty (line 153)
InitNormalize ==
    /\ Quiescent
    /\ prev = NoPrev /\ cl = NoClient /\ ss = NoSessions
    /\ \E text \in RecordTexts :
          \/ pf = [fn |-> "original", arg |-> text, called |-> FALSE, result |-> <<>>]
          \/ /\ Strip(text) # <<>>
             /\ pf = [fn |-> "translation", arg |-> Strip(text), called |-> FALSE,
                      result |-> <<>>]

\* lines 124-128
NormalizeOriginalText ==
    /\ pf.fn = "original"
    /\ ~pf.called
    /\ pf' = [pf EXCEPT !.called = TRUE, !.result = NormalizeOriginal(pf.arg)]
    /\ UNCHANGED <<quiescentVars, prev, cl, ss>>

\* lines 154-159
NormalizeTranslationText ==
    /\ pf.fn = "translation"
    /\ ~pf.called
    /\ pf' = [pf EXCEPT !.called = TRUE, !.result = NormalizeTranslation(pf.arg)]
    /\ UNCHANGED <<quiescentVars, prev, cl, ss>>

NextNormalize == NormalizeOriginalText \/ NormalizeTranslationText

SpecNormalize == InitNormalize /\ [][NextNormalize]_vars

\* C14: the text placed in a frame, original or translation, contains no
\* "<i>" or "</i>", no two consecutive spaces or newlines, and no leading or
\* trailing whitespace, whatever the text of the record.
C14_FrameTextNormalized ==
    (pf.called /\ pf.fn \in {"original", "translation"}) =>
        /\ ~Contains(ItalicOpen, pf.result)
        /\ ~Contains(ItalicClose, pf.result)
        /\ \A i \in 1..(Len(pf.result) - 1) :
               ~(pf.result[i] \in {32, 10} /\ pf.result[i + 1] \in {32, 10})
        /\ pf.result # <<>> =>
               /\ ~IsSpace(pf.result[1])
               /\ ~IsSpace(pf.result[Len(pf.result)])

\* ---- language roles

\* the language tag whose files hold the translations for the query
SecondaryTag(query) ==
    IF PrimaryTag(query) = <<101, 110>> THEN <<114, 117>> ELSE <<101, 110>>

\* name ends with "_<tag>.srt"
HasTag(name, tag) ==
    /\ Len(name) >= 7
    /\ SubSeq(name, Len(name) - 6, Len(name)) = <<95>> \o tag \o <<46, 115, 114, 116>>

\* the tag in capitals, as printed in a frame
TagLabel(tag) == IF tag = <<101, 110>> THEN <<69, 78>> ELSE <<82, 85>>

\* C15: the roles are fixed by the query alone: primary "ru" and secondary "en"
\* if the query has a character outside 7-bit ASCII, else primary "en" and
\* secondary "ru"; only files named "_<primary>.srt" are scanned, every
\* frame's original block comes from such a file and is labelled with the
\* primary language, and its translation block with the secondary one.
C15_RolesFixedByQuery ==
    queries > 0 =>
        /\ lang_suffix(search_str) = PrimaryTag(search_str)
        /\ other_lang_suffix(search_str) = SecondaryTag(search_str)
        /\ pc \in {"scan", "lookup", "send"} =>
               HasTag(tree[root][file].name, PrimaryTag(search_str))
        /\ \A i \in 1..Len(out) :
               IsFrame(out[i]) =>
                   /\ HasTag(out[i].result.original.file.name, PrimaryTag(search_str))
                   /\ out[i].result.original.language = TagLabel(PrimaryTag(search_str))
                   /\ out[i].result.translation # <<>> =>
                          /\ out[i].result.translation[1].language
                                 = TagLabel(SecondaryTag(search_str))
                          /\ HasTag(out[i].result.translation[1].file.name,
                                    SecondaryTag(search_str))

\* a query that begins with ASCII characters and contains Cyrillic ones,
\* answered with a frame from a Russian file and an English translation
C15_Witness ==
    /\ queries > 0
    /\ search_str[1] < 128
    /\ \E k \in 1..Len(search_str) : search_str[k] > 127
    /\ \E i \in 1..Len(out) :
          /\ IsFrame(out[i])
          /\ HasTag(out[i].result.original.file.name, <<114, 117>>)
          /\ out[i].result.translation # <<>>

\* ------------------------------------------------------------------------
\* A session in which the response to a query is kept for comparison

\* the client keeps what it received for a query (history of the session);
\* the server is back at conn.recv, line 185
Remember ==
    /\ pc = "recv"
    /\ queries > 0
    /\ prev = NoPrev
    /\ prev' = <<[query |-> search_str, out |-> out, queries |-> queries]>>
    /\ UNCHANGED <<tree, pc, search_str, walkVars, found_matches, count, result,
                   out, queries, failures, data, fc, pf, cl, ss>>

NextTwice == Next \/ Remember

SpecTwice == Init /\ [][NextTwice]_vars

\* C16: the same query issued again in the session over the same tree gets
\* the same response, item for item (writes succeeding): the same frames in
\* the same order, the same notice, the same end marker.
C16_SameQuerySameResponse ==
    (/\ prev # NoPrev
     /\ queries > prev[1].queries
     /\ search_str = prev[1].query
     /\ pc = "recv"
     /\ "send" \notin failures) => out = prev[1].out

\* a query answered with twelve frames, issued again and answered again
C16_Witness ==
    /\ prev # NoPrev
    /\ queries > prev[1].queries
    /\ search_str = prev[1].query
    /\ pc = "recv"
    /\ "send" \notin failures
    /\ NumFrames(out) = SEARCH_LIMIT
    /\ out[Len(out)] = EndMarker

\* ------------------------------------------------------------------------
\* The path of the translation file, on primary file names built from tokens

\* the longest base name, in tokens
MaxNameTokens == 3

\* "m", "g", "_en" and "_ru": "m" "_en" "g" is the base name "m_eng"
NameTokens == {<<109>>, <<103>>, <<95, 101, 110>>, <<95, 114, 117>>}

BaseNames ==
    {Flatten(toks) : toks \in UNION {[1..n -> NameTokens] : n \in 0..MaxNameTokens}}

LangSuffixes == {<<101, 110>>, <<114, 117>>}

\* a primary file <base>_<from>.srt in one of two directories, and the suffixes
\* of the call
InitPairing ==
    /\ Quiescent
    /\ prev = NoPrev /\ cl = NoClient /\ ss = NoSessions
    /\ \E base \in BaseNames, from \in LangSuffixes, d \in {1, 2} :
          pf = [fn |-> "other_lang_path",
                arg |-> [file_path |->
                             Path(d, base \o <<95>> \o from \o <<46, 115, 114, 116>>),
                         from_lang_suffix |-> from,
                         to_lang_suffix |-> CHOOSE to \in LangSuffixes : to # from],
                called |-> FALSE,
                result |-> <<>>]

\* lines 54-60
DeriveOtherLangPath ==
    /\ pf.fn = "other_lang_path"
    /\ ~pf.called
    /\ pf' = [pf EXCEPT !.called = TRUE,
                        !.result = <<OtherLangPath(pf.arg.file_path,
                                                   pf.arg.from_lang_suffix,
                                                   pf.arg.to_lang_suffix)>>]
    /\ UNCHANGED <<quiescentVars, prev, cl, ss>>

NextPairing == DeriveOtherLangPath

SpecPairing == InitPairing /\ [][NextPairing]_vars

\* C17: the translation file consulted for a primary file "<base>_<primary>.srt"
\* is in the same directory and is named "<base>_<secondary>.srt": the name of
\* the primary file with its trailing language tag replaced, also when
\* "_<primary>" occurs elsewhere in the base name.
C17_OnlyTrailingTagReplaced ==
    (pf.called /\ pf.fn = "other_lang_path") =>
        LET name == pf.arg.file_path.name
        IN  /\ pf.result[1].dir = pf.arg.file_path.dir
            /\ pf.result[1].name =
                   SubSeq(name, 1, Len(name) - 6) \o pf.arg.to_lang_suffix
                       \o <<46, 115, 114, 116>>

\* ---- ties in find_closest_sub

\* C18: of several records tied at the minimum difference within tolerance,
\* find_closest_sub returns the first of the sequence: every record before the
\* returned one is strictly farther from T, whatever the chronological order.
C18_FirstOfTiesWins ==
    (fc.called /\ fc.closest_sub # 0) =>
        \A j \in 1..(fc.closest_sub - 1) : StartDiff(j) > StartDiff(fc.closest_sub)

\* a call that returns a record although a later record of the sequence, which
\* starts earlier, is exactly as close
C18_Witness ==
    /\ fc.called
    /\ fc.closest_sub # 0
    /\ \E j \in (fc.closest_sub + 1)..Len(fc.subs) :
          /\ StartDiff(j) = StartDiff(fc.closest_sub)
          /\ Millis(fc.subs[j].start) < Millis(fc.subs[fc.closest_sub].start)

\* ---- what a response is made of

\* the end marker is among the items written
MarkerWritten(o) == \E i \in 1..Len(o) : o[i] = EndMarker

\* C19: a completed response, closed by its end marker, has at least one frame
\* or the notice, never neither and never both; and the value the search
\* returns is true exactly when at least one frame was written, also when a
\* lookup or a send raised after a match was counted.
C19_FramesOrNotice ==
    MarkerWritten(out) =>
        /\ NumFrames(out) > 0 <=> ~NoticeWritten(out)
        /\ found_matches <=> NumFrames(out) > 0

\* ------------------------------------------------------------------------
\* The receive loop of start_client, for one query

\* client.recv(1024)
RecvBufSize == 1024

\* "<END>" and the bytes handle_client writes at line 199, "\n<END>\n"
EndToken == <<60, 69, 78, 68, 62>>
EndBytes == <<10>> \o EndToken \o <<10>>

\* what the frames or the notice of a response amount to: nothing, "a", "a\nb"
Payloads == {<<>>, <<97>>, <<97, 10, 98>>}

\* the part of the buffer after its last newline: buffer.split("\n")[-1]
RECURSIVE LastLine(_)
LastLine(s) ==
    IF s = <<>> THEN <<>>
    ELSE IF s[Len(s)] = 10 THEN <<>>
    ELSE LastLine(SubSeq(s, 1, Len(s) - 1)) \o <<s[Len(s)]>>

\* lines 241-245: the query is sent, receiving = True, buffer = ""; the server
\* answers with a payload and the marker, or closes the connection without
\* the marker (a whitespace-only query, lines 186-187 and 204; an error, lines
\* 201-204)
InitClient ==
    /\ Quiescent
    /\ prev = NoPrev /\ pf = NoPure /\ ss = NoSessions
    /\ \E payload \in Payloads, marker \in BOOLEAN :
          cl = [response |-> IF marker THEN payload \o EndBytes ELSE payload,
                stream |-> IF marker THEN payload \o EndBytes ELSE payload,
                closed |-> ~marker,
                receiving |-> TRUE,
                at |-> "recv",
                data |-> <<>>,
                eof |-> FALSE,
                buffer |-> <<>>]

\* lines 248-258: one iteration of the loop on the chunk data
AfterChunk(c, chunk) ==
    IF Contains(EndToken, chunk)
    THEN [c EXCEPT !.data = chunk,
                   !.buffer = c.buffer \o Replace(chunk, EndToken, <<>>),
                   !.receiving = FALSE]
    ELSE [c EXCEPT !.data = chunk,
                   !.buffer = LastLine(c.buffer \o chunk)]

\* line 247: recv returns some of the bytes in flight, at most 1024
ClientRecv ==
    /\ cl.at = "recv"
    /\ cl.receiving
    /\ cl.stream # <<>>
    /\ \E n \in 1..Min(Len(cl.stream), RecvBufSize) :
          cl' = [AfterChunk(cl, SubSeq(cl.stream, 1, n))
                     EXCEPT !.stream = SubSeq(cl.stream, n + 1, Len(cl.stream))]
    /\ UNCHANGED <<quiescentVars, prev, pf, ss>>

\* line 247: nothing in flight and the server has closed: recv returns b""
ClientRecvEof ==
    /\ cl.at = "recv"
    /\ cl.receiving
    /\ cl.stream = <<>>
    /\ cl.closed
    /\ cl' = [AfterChunk(cl, <<>>) EXCEPT !.eof = TRUE]
    /\ UNCHANGED <<quiescentVars, prev, pf, ss>>

\* lines 246, 260-261, 237: the loop ends, the rest of the buffer is shown and
\* the client is back at its prompt
ClientPrompt ==
    /\ cl.at = "recv"
    /\ ~cl.receiving
    /\ cl' = [cl EXCEPT !.at = "prompt"]
    /\ UNCHANGED <<quiescentVars, prev, pf, ss>>

NextClient == ClientRecv \/ ClientRecvEof \/ ClientPrompt

SpecClient == InitClient /\ [][NextClient]_vars

\* C20: the receive loop ends for every way the response is split into
\* chunks and also when the server closes without the marker: once the whole
\* response with its marker has been received, or the end of the stream has
\* been read, the loop is over (nothing more can arrive to end it).
C20_ReceiveLoopEnds ==
    /\ (cl.stream = <<>> /\ Contains(EndToken, cl.response)) => ~cl.receiving
    /\ cl.eof => ~cl.receiving

\* ------------------------------------------------------------------------
\* Concurrent sessions: one handle_client worker per accepted connection

\* the workers started at lines 219-222, one per connection
Sessions == {1, 2}

\* a tree with enough matching records for a search to reach the cap, with a
\* file that does not load and a lookup that raises
SessionTrees == {<<DirA, DirC>>}

\* the locals of the running worker and what was written to its connection
Locals ==
    [pc |-> pc, search_str |-> search_str, root |-> root, file |-> file, sub |-> sub,
     found_matches |-> found_matches, count |-> count, result |-> result,
     out |-> out, queries |-> queries, failures |-> failures, data |-> data]

\* a worker that has just been started: handle_client at line 185
Started ==
    [pc |-> "recv", search_str |-> <<>>, root |-> 1, file |-> 1, sub |-> 0,
     found_matches |-> FALSE, count |-> 0, result |-> NoResult,
     out |-> <<>>, queries |-> 0, failures |-> {}, data |-> <<>>]

\* ss.cur is the worker that runs, its state is in the variables of the
\* session; ss.saved holds the state of each worker that is not running
InitSessions ==
    /\ tree \in SessionTrees
    /\ pc = "recv"
    /\ search_str = <<>>
    /\ root = 1 /\ file = 1 /\ sub = 0
    /\ found_matches = FALSE
    /\ count = 0
    /\ result = NoResult
    /\ out = <<>>
    /\ queries = 0
    /\ failures = {}
    /\ data = <<>>
    /\ fc = NoCall
    /\ prev = NoPrev /\ pf = NoPure /\ cl = NoClient
    /\ ss = [cur |-> 1, saved |-> [i \in Sessions |-> Started]]

\* a switch that leaves the counter where it is: one counter for all workers
SwitchSharingCount(i) ==
    /\ i # ss.cur
    /\ ss' = [cur |-> i, saved |-> [ss.saved EXCEPT ![ss.cur] = Locals, ![i] = Started]]
    /\ pc' = ss.saved[i].pc
    /\ search_str' = ss.saved[i].search_str
    /\ root' = ss.saved[i].root
    /\ file' = ss.saved[i].file
    /\ sub' = ss.saved[i].sub
    /\ found_matches' = ss.saved[i].found_matches
    /\ result' = ss.saved[i].result
    /\ out' = ss.saved[i].out
    /\ queries' = ss.saved[i].queries
    /\ failures' = ss.saved[i].failures
    /\ data' = ss.saved[i].data
    /\ UNCHANGED <<tree, count, fc, prev, pf, cl>>

\* lines 219-222: the threads run interleaved; worker i is scheduled, the
\* locals and the connection of the worker that ran stay with that worker
Switch(i) ==
    /\ i # ss.cur
    /\ ss' = [cur |-> i, saved |-> [ss.saved EXCEPT ![ss.cur] = Locals, ![i] = Started]]
    /\ pc' = ss.saved[i].pc
    /\ search_str' = ss.saved[i].search_str
    /\ root' = ss.saved[i].root
    /\ file' = ss.saved[i].file
    /\ sub' = ss.saved[i].sub
    /\ found_matches' = ss.saved[i].found_matches
    /\ count' = ss.saved[i].count
    /\ result' = ss.saved[i].result
    /\ out' = ss.saved[i].out
    /\ queries' = ss.saved[i].queries
    /\ failures' = ss.saved[i].failures
    /\ data' = ss.saved[i].data
    /\ UNCHANGED <<tree, fc, prev, pf, cl>>

SwitchWorker == \E i \in Sessions : Switch(i)

\* the queries a worker answers
QueriesPerWorker == 1

\* a worker that may read one more query
ReadsOn == queries < QueriesPerWorker

NextSessions ==
    \/ (ReadsOn /\ RecvQuery) \/ RecvBlank \/ RecvFails
    \/ WalkNextDir \/ WalkSkipFile \/ OpenFile \/ OpenFileFails \/ WalkDone
    \/ ScanNoMatch \/ ScanMatch \/ ScanEndOfFile
    \/ LookupTranslation \/ LookupFails
    \/ SendFrame \/ SendFrameFails
    \/ SendNotice \/ SendNoticeFails
    \/ SendEnd \/ SendEndFails
    \/ SwitchWorker

SpecSessions == InitSessions /\ [][NextSessions]_vars

\* ---- a session alone

\* what is written for a query by a session that runs alone and whose writes
\* succeed, from the position <<d, f, r>> of the walk on (r = 0: the file is
\* not open), with c matches counted and acc written so far
RECURSIVE SoloFrom(_, _, _, _, _, _, _, _)
SoloFrom(t, q, d, f, r, c, found, acc) ==
    IF d > Len(t)
    THEN acc \o (IF found THEN <<>> ELSE <<NoResultsMsg>>) \o <<EndMarker>>
    ELSE IF f > Len(t[d]) THEN SoloFrom(t, q, d + 1, 1, 0, c, found, acc)
    ELSE IF r = 0
    THEN IF IsPrimaryFile(t[d][f].name, q) /\ t[d][f].ok
         THEN SoloFrom(t, q, d, f, 1, c, found, acc)
         ELSE SoloFrom(t, q, d, f + 1, 0, c, found, acc)
    ELSE IF r > Len(t[d][f].subs) THEN SoloFrom(t, q, d, f + 1, 0, c, found, acc)
    ELSE IF ~Matches(q, t[d][f].subs[r].text)
    THEN SoloFrom(t, q, d, f, r + 1, c, found, acc)
    ELSE IF TranslationRaises(t, Path(d, t[d][f].name), lang_suffix(q),
                              other_lang_suffix(q))
    THEN SoloFrom(t, q, d, f + 1, 0, c + 1, TRUE, acc)
    ELSE IF CapReached(c + 1)
    THEN Append(acc, Frame(BuildResult(t, q, d, f, r))) \o <<EndMarker>>
    ELSE SoloFrom(t, q, d, f, r + 1, c + 1, TRUE,
                  Append(acc, Frame(BuildResult(t, q, d, f, r))))

\* the stripped non-blank queries
Queries == {Strip(raw) : raw \in RawQueries} \ {<<>>}

\* the response to each query over each tree, by a session alone
SoloTable ==
    {<<t, q, SoloFrom(t, q, 1, 1, 0, 0, FALSE, <<>>)>> :
        t \in Trees \cup SessionTrees, q \in Queries}

Solo(t, q) == (CHOOSE e \in SoloTable : e[1] = t /\ e[2] = q)[3]

IsPrefix(a, b) == Len(a) <= Len(b) /\ SubSeq(b, 1, Len(a)) = a

\* the single session of Spec writes what Solo says
SoloIsTheSingleSession ==
    (queries > 0 /\ "send" \notin failures) =>
        /\ IsPrefix(out, Solo(tree, search_str))
        /\ pc \in {"recv", "closed"} => out = Solo(tree, search_str)

\* the state of worker i
View(i) == IF i = ss.cur THEN Locals ELSE ss.saved[i]

\* what a worker has written is what a session alone writes
WritesWhatSoloWrites ==
    \A i \in Sessions :
        (View(i).queries > 0 /\ "send" \notin View(i).failures) =>
            /\ IsPrefix(View(i).out, Solo(tree, View(i).search_str))
            /\ View(i).pc \in {"recv", "closed"} =>
                   View(i).out = Solo(tree, View(i).search_str)

\* a step changes the counter, the locals and the connection of no worker but
\* the one that takes it
OnlyTheRunningWorkerChanges ==
    \A i \in Sessions : View(i)' = View(i) \/ (ss.cur = i /\ ss'.cur = i)

\* C11: concurrent sessions do not interfere: whatever the interleaving, and
\* whether or not another session fails or is closed, what has been written to
\* the connection of a session for its query is at every moment the beginning
\* of what the query yields for a session alone, and all of it when the query
\* is answered; so the cap of a search counts its own matches only, and the
\* frames on a connection are those of the query read from it.
C11_SessionsDoNotInterfere ==
    []WritesWhatSoloWrites /\ [][OnlyTheRunningWorkerChanges]_vars

\* two searches of the same query under way at the same time, each with
\* eleven matches counted and eleven frames written, neither at the cap
C11_Witness ==
    /\ \A i \in Sessions :
          /\ View(i).pc = "scan"
          /\ View(i).count = SEARCH_LIMIT - 1
          /\ NumFrames(View(i).out) = SEARCH_LIMIT - 1
    /\ View(1).search_str = View(2).search_str

====
